---- MODULE Spec2Model ----
(***************************************************************************)
(* A model of lava/client.py: the Lavalink client's session state, its     *)
(* listener registry, the WebSocket dispatch loop and the REST accessors.  *)
(*                                                                         *)
(* Python values are encoded as follows.  An Optional value is a sequence  *)
(* of length 0 (None) or 1 (the value).  The outcome of a call is a record *)
(* Return(v) or Raise(e).  A JSON value is a record tagged by its field j. *)
(* asyncio is single threaded: every action below is one run of a          *)
(* coroutine from one suspension point to the next.                        *)
(***************************************************************************)
EXTENDS Integers, Sequences, FiniteSets, TLC

VARIABLES
    _is_ssl,          \* Lavalink._is_ssl: Optional bool
    _host,            \* Lavalink._host: Optional str
    _port,            \* Lavalink._port: Optional int | str
    _session,         \* Lavalink._session: Optional index into sessions
    _websocket,       \* Lavalink._websocket: Optional index into sockets
    event_listeners,  \* Lavalink.event_listeners: dict event type -> list of callbacks
    sessions,         \* the aiohttp.ClientSession objects created so far
    sockets,          \* the ws_connect context managers created so far
    loops,            \* the _start_listening tasks spawned so far
    tasks,            \* the listener tasks created by dispatch, in creation order
    handled,          \* what the dispatch loop did with each frame it read, in order
    sent,             \* number of frames the node has sent
    requests,         \* the HTTP GET requests issued, in order
    dispatches,       \* number of dispatch calls the caller has made
    closing,          \* where the caller's close() calls are: how many began, whether
                      \* one is suspended in it, and how many frames the node had
                      \* sent when the last one returned
    last              \* the last connect, dispatch, get or get_players call of the
                      \* caller: its name, arguments and outcome

vars == <<_is_ssl, _host, _port, _session, _websocket, event_listeners,
          sessions, sockets, loops, tasks, handled, sent, requests, dispatches, closing,
          last>>

sessionFields == <<_is_ssl, _host, _port, _session, _websocket>>

----------------------------------------------------------------------------
(* Bounds of the model. *)

MaxRegs == 2
MaxFrames == 2
MaxDispatches == 1
MaxConnects == 1
MaxGets == 1

----------------------------------------------------------------------------
(* Python values. *)

None == <<>>
Some(v) == <<v>>

Return(v) == [kind |-> "return", val |-> v]
Raise(e) == [kind |-> "raise", err |-> e]

NotConnected == [cls |-> "RuntimeError", msg |-> "Lavalink.connect() was not called."]

\* What aiohttp raises for a request on a closed ClientSession.
SessionClosed == [cls |-> "RuntimeError", msg |-> "Session is closed"]

JStr(s) == [j |-> "string", s |-> s]
JArr(items) == [j |-> "array", items |-> items]
JObj(keys, vals) == [j |-> "object", keys |-> keys, vals |-> vals]
NotJson == [j |-> "notjson"]

\* An int | str port, and its formatting by an f-string.
PInt(n) == [t |-> "int", n |-> n]
PStr(s) == [t |-> "str", s |-> s]
Format(p) == IF p.t = "int" THEN ToString(p.n) ELSE p.s

----------------------------------------------------------------------------
(* The inputs the model draws from. *)

Hosts == {"h"}
Ports == {PInt(80), PStr("2333")}
Passwords == {"p"}
BotIds == {1}
ResumeKeys == {None, Some(""), Some("k")}

Callbacks == {"cb1", "cb2"}

EventTypes == {"ReadyEvent", "PlayerUpdateEvent", "StatsEvent", "TrackStartEvent",
               "TrackEndEvent", "TrackExceptionEvent", "TrackStuckEvent",
               "WebSocketClosedEvent"}

\* A frame is the text of one WebSocket message: malformed JSON (ok = FALSE), or
\* a JSON object of which the loop reads the optional keys "op" and "type".
Frame(op, type) == [ok |-> TRUE, op |-> op, type |-> type]
Malformed == [ok |-> FALSE, op |-> None, type |-> None]

SubEventNames == {"TrackStartEvent", "TrackEndEvent", "TrackExceptionEvent",
                  "TrackStuckEvent", "WebSocketClosedEvent"}

Frames ==
    {Frame(Some(op), None) : op \in {"ready", "playerUpdate", "stats", "event", "bogusOp"}}
    \cup {Frame(Some("event"), Some(t)) : t \in SubEventNames \cup {"BogusEvent"}}
    \cup {Frame(None, None), Malformed}

----------------------------------------------------------------------------
(* Session state: __init__ and the five accessors. *)

EmptyDict == [t \in {} |-> <<>>]

Init ==
    /\ _is_ssl = None
    /\ _host = None
    /\ _port = None
    /\ _session = None
    /\ _websocket = None
    /\ event_listeners = EmptyDict
    /\ sessions = <<>>
    /\ sockets = <<>>
    /\ loops = <<>>
    /\ tasks = <<>>
    /\ handled = <<>>
    /\ sent = 0
    /\ requests = <<>>
    /\ dispatches = 0
    /\ closing = [pc |-> "idle", calls |-> 0, sentAt |-> None]
    /\ last = [call |-> "__init__", out |-> Return(None)]

is_ssl == IF _is_ssl = None THEN Raise(NotConnected) ELSE Return(_is_ssl[1])

host_silent == Return(_host)

host == IF _host = None THEN Raise(NotConnected) ELSE Return(_host[1])

port == IF _port = None THEN Raise(NotConnected) ELSE Return(_port[1])

\* "not self._session": a ClientSession is always truthy, so only None is falsy.
session == IF _session = None THEN Raise(NotConnected) ELSE Return(_session[1])

websocket == IF _websocket = None THEN Raise(NotConnected) ELSE Return(_websocket[1])

----------------------------------------------------------------------------
(* The listener registry: listen and dispatch. *)

Registrations ==
    LET RECURSIVE Count(_)
        Count(S) == IF S = {} THEN 0
                    ELSE LET t == CHOOSE x \in S : TRUE
                         IN Len(event_listeners[t]) + Count(S \ {t})
    IN Count(DOMAIN event_listeners)

decorator_replacing(event_type, callback) ==
    (event_type :> <<callback>>) @@ event_listeners

\* The decorator returned by listen(event_type), applied to callback.
decorator(event_type, callback) ==
    IF event_type \in DOMAIN event_listeners
    THEN [event_listeners EXCEPT ![event_type] = Append(@, callback)]
    ELSE event_listeners @@ (event_type :> <<callback>>)

Listen(event_type, callback) ==
    /\ Registrations < MaxRegs
    /\ event_listeners' = decorator(event_type, callback)
    /\ UNCHANGED <<closing, sessionFields, sessions, sockets, loops, tasks, handled, sent,
                   requests, dispatches, last>>

\* An event built by <cls>.from_payload(data); n is the serial number of the
\* frame it was decoded from (0 for an event the caller built itself).
Event(cls, n) == [cls |-> cls, n |-> n]

\* dict.get(type(event)): None when the key is absent.
listeners_of(event) ==
    IF event.cls \in DOMAIN event_listeners THEN Some(event_listeners[event.cls]) ELSE None

NewTasks(event, listeners) ==
    [i \in 1..Len(listeners) |-> [ev |-> event, cb |-> listeners[i], st |-> "pending"]]

dispatch_reversed(event) ==
    LET got == listeners_of(event)
        ls == IF got = None THEN <<>> ELSE got[1]
    IN [out |-> Return(None),
        new |-> NewTasks(event, [i \in 1..Len(ls) |-> ls[Len(ls) + 1 - i]])]

dispatch_subscript(event) ==
    IF event.cls \in DOMAIN event_listeners
    THEN [out |-> Return(None), new |-> NewTasks(event, event_listeners[event.cls])]
    ELSE [out |-> Raise([cls |-> "KeyError", key |-> event.cls]), new |-> <<>>]

dispatch_stale(event) ==
    LET got == listeners_of(event)
        ls == IF got = None THEN <<>> ELSE got[1]
    IN [out |-> Return(None),
        new |-> NewTasks(event, IF Len(ls) > 1 THEN SubSeq(ls, 1, Len(ls) - 1) ELSE ls)]

\* dispatch(event): its outcome and the tasks asyncio.create_task adds, in order.
\* The walrus test is falsy for None and for an empty list.
dispatch(event) ==
    LET got == listeners_of(event)
    IN IF got # None /\ got[1] # <<>>
       THEN [out |-> Return(None), new |-> NewTasks(event, got[1])]
       ELSE [out |-> Return(None), new |-> <<>>]

\* The caller invokes dispatch itself.
Dispatch(cls) ==
    LET d == dispatch(Event(cls, 0))
    IN /\ dispatches < MaxDispatches
       /\ dispatches' = dispatches + 1
       /\ tasks' = tasks \o d.new
       /\ last' = [call |-> "dispatch", args |-> [event |-> Event(cls, 0)], out |-> d.out]
       /\ UNCHANGED <<closing, sessionFields, event_listeners, sessions, sockets, loops, handled,
                      sent, requests>>

----------------------------------------------------------------------------
(* connect. *)

Truthy(optstr) == optstr # None /\ optstr[1] # ""

\* The headers dict connect builds; str(bot_id) is the decimal text of bot_id.
headers(pw, bot, rk) ==
    LET base == ("Authorization" :> pw) @@ ("User-Id" :> ToString(bot))
                @@ ("Client-Name" :> "lava.py/0.0.0")
    IN IF Truthy(rk) THEN base @@ ("Resume-Key" :> rk[1]) ELSE base

ws_url_swapped(ssl, h, p) ==
    (IF ssl THEN "ws" ELSE "wss") \o "://" \o h \o ":" \o Format(p) \o "/v3/websocket"

ws_url(ssl, h, p) ==
    (IF ssl THEN "wss" ELSE "ws") \o "://" \o h \o ":" \o Format(p) \o "/v3/websocket"

Connect_closing_previous(h, p, pw, bot, rk, ssl) ==
    /\ _is_ssl' = Some(ssl)
    /\ _host' = Some(h)
    /\ _port' = Some(p)
    /\ sessions' = Append([s \in DOMAIN sessions |-> [sessions[s] EXCEPT !.closed = TRUE]],
                          [headers |-> headers(pw, bot, rk), closed |-> FALSE])
    /\ _session' = Some(Len(sessions) + 1)
    /\ sockets' = Append([w \in DOMAIN sockets |->
                             [sockets[w] EXCEPT !.st = IF @ = "open" THEN "shut" ELSE @]],
                         [url |-> ws_url(ssl, h, p), session |-> Len(sessions) + 1,
                          st |-> "new", inbox |-> <<>>])
    /\ _websocket' = Some(Len(sockets) + 1)
    /\ loops' = Append(loops, [pc |-> "spawned", ws |-> None])
    /\ last' = [call |-> "connect",
                args |-> [host |-> h, port |-> p, password |-> pw, bot_id |-> bot,
                          resume_key |-> rk, is_ssl |-> ssl],
                out |-> Return(None)]
    /\ UNCHANGED <<closing, event_listeners, tasks, handled, sent, requests, dispatches>>

\* connect has no suspension point: it runs to its end in one step.  The session
\* and the ws_connect context manager are new objects; the loop task is only
\* spawned (asyncio.create_task), it has not run yet.
Connect(h, p, pw, bot, rk, ssl) ==
    /\ _is_ssl' = Some(ssl)
    /\ _host' = Some(h)
    /\ _port' = Some(p)
    /\ sessions' = Append(sessions, [headers |-> headers(pw, bot, rk), closed |-> FALSE])
    /\ _session' = Some(Len(sessions) + 1)
    /\ sockets' = Append(sockets, [url |-> ws_url(ssl, h, p), session |-> Len(sessions) + 1,
                                   st |-> "new", inbox |-> <<>>])
    /\ _websocket' = Some(Len(sockets) + 1)
    /\ loops' = Append(loops, [pc |-> "spawned", ws |-> None])
    /\ last' = [call |-> "connect",
                args |-> [host |-> h, port |-> p, password |-> pw, bot_id |-> bot,
                          resume_key |-> rk, is_ssl |-> ssl],
                out |-> Return(None)]
    /\ UNCHANGED <<closing, event_listeners, tasks, handled, sent, requests, dispatches>>

----------------------------------------------------------------------------
(* The dispatch loop, _start_listening. *)

event_of_stats_as_ready(f) ==
    IF ~f.ok THEN Raise([cls |-> "JSONDecodeError"])
    ELSE IF f.op = None THEN Raise([cls |-> "KeyError", key |-> "op"])
    ELSE IF f.op[1] \in {"ready", "stats"} THEN Return(Some("ReadyEvent"))
    ELSE IF f.op[1] = "playerUpdate" THEN Return(Some("PlayerUpdateEvent"))
    ELSE IF f.op[1] = "event" /\ f.type # None /\ f.type[1] \in SubEventNames
         THEN Return(Some(f.type[1]))
    ELSE IF f.op[1] = "event" /\ f.type = None THEN Raise([cls |-> "KeyError", key |-> "type"])
    ELSE Return(None)

event_of_strict(f) ==
    IF ~f.ok THEN Raise([cls |-> "JSONDecodeError"])
    ELSE IF f.op = None THEN Raise([cls |-> "KeyError", key |-> "op"])
    ELSE IF f.op[1] = "ready" THEN Return(Some("ReadyEvent"))
    ELSE IF f.op[1] = "playerUpdate" THEN Return(Some("PlayerUpdateEvent"))
    ELSE IF f.op[1] = "stats" THEN Return(Some("StatsEvent"))
    ELSE IF f.op[1] = "event" /\ f.type # None /\ f.type[1] \in SubEventNames
         THEN Return(Some(f.type[1]))
    ELSE IF f.op[1] = "event" /\ f.type = None THEN Raise([cls |-> "KeyError", key |-> "type"])
    ELSE Raise([cls |-> "ValueError", key |-> "unknown"])

event_of_lenient(f) ==
    IF ~f.ok THEN Raise([cls |-> "JSONDecodeError"])
    ELSE IF f.op = None THEN Return(None)
    ELSE IF f.op[1] = "ready" THEN Return(Some("ReadyEvent"))
    ELSE IF f.op[1] = "playerUpdate" THEN Return(Some("PlayerUpdateEvent"))
    ELSE IF f.op[1] = "stats" THEN Return(Some("StatsEvent"))
    ELSE IF f.op[1] = "event" /\ f.type # None /\ f.type[1] \in SubEventNames
         THEN Return(Some(f.type[1]))
    ELSE Return(None)

\* The body of the async for: json.loads, then the if/elif chain on data["op"]
\* and data["type"].  Returns the class of the event to build and dispatch,
\* None when no branch matches, or the error the body raises.
event_of(f) ==
    IF ~f.ok THEN Raise([cls |-> "JSONDecodeError"])
    ELSE IF f.op = None THEN Raise([cls |-> "KeyError", key |-> "op"])
    ELSE IF f.op[1] = "ready" THEN Return(Some("ReadyEvent"))
    ELSE IF f.op[1] = "playerUpdate" THEN Return(Some("PlayerUpdateEvent"))
    ELSE IF f.op[1] = "stats" THEN Return(Some("StatsEvent"))
    ELSE IF f.op[1] = "event"
         THEN IF f.type = None THEN Raise([cls |-> "KeyError", key |-> "type"])
              ELSE IF f.type[1] = "TrackStartEvent" THEN Return(Some("TrackStartEvent"))
              ELSE IF f.type[1] = "TrackEndEvent" THEN Return(Some("TrackEndEvent"))
              ELSE IF f.type[1] = "TrackExceptionEvent" THEN Return(Some("TrackExceptionEvent"))
              ELSE IF f.type[1] = "TrackStuckEvent" THEN Return(Some("TrackStuckEvent"))
              ELSE IF f.type[1] = "WebSocketClosedEvent"
                   THEN Return(Some("WebSocketClosedEvent"))
              ELSE Return(None)
    ELSE Return(None)

\* First run of the loop task: "async with self.websocket as ws" reads the
\* current _websocket and awaits its handshake, which succeeds or fails.  A
\* context manager whose coroutine was already awaited, or was closed, cannot
\* be awaited again, and a closed session refuses the request.
LoopEnter(k, ok) ==
    /\ k \in DOMAIN loops
    /\ loops[k].pc = "spawned"
    /\ IF websocket.kind = "raise"
       THEN /\ loops' = [loops EXCEPT ![k].pc = "failed"]
            /\ UNCHANGED sockets
       ELSE LET w == websocket.val
            IN IF sockets[w].st = "new" /\ ~sessions[sockets[w].session].closed /\ ok
               THEN /\ sockets' = [sockets EXCEPT ![w].st = "open"]
                    /\ loops' = [loops EXCEPT ![k] = [pc |-> "running", ws |-> Some(w)]]
               ELSE /\ sockets' = [sockets EXCEPT ![w].st =
                                      IF @ = "new" THEN "failed" ELSE @]
                    /\ loops' = [loops EXCEPT ![k].pc = "failed"]
    /\ UNCHANGED <<closing, sessionFields, event_listeners, sessions, tasks, handled, sent,
                   requests, dispatches, last>>

\* The node sends a text frame on an open socket.
NodeSend(w, f) ==
    /\ w \in DOMAIN sockets
    /\ sockets[w].st = "open"
    /\ sent < MaxFrames
    /\ sent' = sent + 1
    /\ sockets' = [sockets EXCEPT ![w].inbox = Append(@, [n |-> sent + 1, f |-> f])]
    /\ UNCHANGED <<closing, sessionFields, event_listeners, sessions, loops, tasks, handled,
                   requests, dispatches, last>>

\* The node closes the socket gracefully; frames already sent are still read.
NodeClose(w) ==
    /\ w \in DOMAIN sockets
    /\ sockets[w].st = "open"
    /\ sockets' = [sockets EXCEPT ![w].st = "closed"]
    /\ UNCHANGED <<closing, sessionFields, event_listeners, sessions, loops, tasks, handled, sent,
                   requests, dispatches, last>>

CanReadNext_after_listeners(k) ==
    /\ k \in DOMAIN loops
    /\ loops[k].pc = "running"
    /\ sockets[loops[k].ws[1]].inbox # <<>>
    /\ \A i \in DOMAIN tasks : tasks[i].st \in {"done", "failed"}

CanReadNext_resuming(k) ==
    /\ k \in DOMAIN loops
    /\ loops[k].pc \in {"running", "failed"}
    /\ loops[k].ws # None
    /\ sockets[loops[k].ws[1]].inbox # <<>>

\* "async for msg in ws": the loop resumes as soon as a frame is there.
CanReadNext(k) ==
    /\ k \in DOMAIN loops
    /\ loops[k].pc = "running"
    /\ sockets[loops[k].ws[1]].inbox # <<>>

\* The frame the iteration yields: the oldest unread one.
next_msg(inbox) == Head(inbox)

Without(inbox, m) ==
    LET keep == {i \in DOMAIN inbox : inbox[i] # m}
        Ith[i \in 0..Len(inbox)] ==
            IF i = 0 THEN <<>>
            ELSE IF i \in keep THEN Append(Ith[i - 1], inbox[i]) ELSE Ith[i - 1]
    IN Ith[Len(inbox)]

\* One iteration of the async for: read a frame, decode it, dispatch its event.
\* An error raised in the body ends the task.
LoopStep(k) ==
    /\ CanReadNext(k)
    /\ LET w == loops[k].ws[1]
           m == next_msg(sockets[w].inbox)
           r == event_of(m.f)
           d == IF r.kind = "return" /\ r.val # None
                THEN dispatch(Event(r.val[1], m.n))
                ELSE [out |-> Return(None), new |-> <<>>]
           failed == r.kind = "raise" \/ d.out.kind = "raise"
       IN /\ sockets' = [sockets EXCEPT ![w].inbox = Without(@, m)]
          /\ tasks' = tasks \o d.new
          /\ loops' = IF failed THEN [loops EXCEPT ![k].pc = "failed"] ELSE loops
          /\ handled' = Append(handled,
                 [n |-> m.n, f |-> m.f, ws |-> w,
                  r |-> IF failed THEN "raised"
                        ELSE IF r.val = None THEN "dropped" ELSE "dispatched",
                  scheduled |-> Len(d.new)])
    /\ UNCHANGED <<closing, sessionFields, event_listeners, sessions, sent, requests, dispatches,
                   last>>

\* The iteration ends when the socket is closed and every frame was read.
LoopExit(k) ==
    /\ k \in DOMAIN loops
    /\ loops[k].pc = "running"
    /\ sockets[loops[k].ws[1]].inbox = <<>>
    /\ sockets[loops[k].ws[1]].st \in {"closed", "shut"}
    /\ loops' = [loops EXCEPT ![k].pc = "ended"]
    /\ UNCHANGED <<closing, sessionFields, event_listeners, sessions, sockets, tasks, handled, sent,
                   requests, dispatches, last>>

----------------------------------------------------------------------------
(* Listener tasks.  asyncio starts tasks in the order they were created; a     *)
(* started listener finishes, fails, or never does either.                     *)

TaskStart(i) ==
    /\ i \in DOMAIN tasks
    /\ tasks[i].st = "pending"
    /\ \A j \in 1..(i - 1) : tasks[j].st # "pending"
    /\ tasks' = [tasks EXCEPT ![i].st = "running"]
    /\ UNCHANGED <<closing, sessionFields, event_listeners, sessions, sockets, loops, handled, sent,
                   requests, dispatches, last>>

TaskFinish_cancelling(i, ok) ==
    /\ i \in DOMAIN tasks
    /\ tasks[i].st = "running"
    /\ tasks' = [j \in DOMAIN tasks |->
                    IF j = i THEN [tasks[j] EXCEPT !.st = IF ok THEN "done" ELSE "failed"]
                    ELSE IF ~ok /\ tasks[j].ev = tasks[i].ev /\ tasks[j].st \in {"pending", "running"}
                         THEN [tasks[j] EXCEPT !.st = "failed"]
                         ELSE tasks[j]]
    /\ UNCHANGED <<closing, sessionFields, event_listeners, sessions, sockets, loops, handled, sent,
                   requests, dispatches, last>>

TaskFinish(i, ok) ==
    /\ i \in DOMAIN tasks
    /\ tasks[i].st = "running"
    /\ tasks' = [tasks EXCEPT ![i].st = IF ok THEN "done" ELSE "failed"]
    /\ UNCHANGED <<closing, sessionFields, event_listeners, sessions, sockets, loops, handled, sent,
                   requests, dispatches, last>>

----------------------------------------------------------------------------
(* The dispatch loop of one connection, with listeners registered at any time. *)

WSArgs == <<"h", PInt(80), "p", 1, None, FALSE>>

ConnectOnce ==
    /\ _session = None
    /\ Connect(WSArgs[1], WSArgs[2], WSArgs[3], WSArgs[4], WSArgs[5], WSArgs[6])

NextWS ==
    \/ \E t \in EventTypes, cb \in Callbacks : Listen(t, cb)
    \/ ConnectOnce
    \/ \E k \in DOMAIN loops, ok \in BOOLEAN : LoopEnter(k, ok)
    \/ \E w \in DOMAIN sockets, f \in Frames : NodeSend(w, f)
    \/ \E w \in DOMAIN sockets : NodeClose(w)
    \/ \E k \in DOMAIN loops : LoopStep(k)
    \/ \E k \in DOMAIN loops : LoopExit(k)
    \/ \E i \in DOMAIN tasks : TaskStart(i)
    \/ \E i \in DOMAIN tasks, ok \in BOOLEAN : TaskFinish(i, ok)

SpecWS == Init /\ [][NextWS]_vars

----------------------------------------------------------------------------
(* The REST accessors: get and get_players. *)

Paths == {"info"}
SessionIds == {"abc"}
Statuses == {200, 404}

P1 == JObj(<<"guildId">>, <<JStr("1")>>)
P2 == JObj(<<"guildId">>, <<JStr("2")>>)
PlayersArray == JArr(<<P1, P2>>)
PlayersObject == JObj(<<"players">>, <<JArr(<<P1, P2>>)>>)
ErrorBody == JObj(<<"status", "message">>, <<JStr("404"), JStr("Not Found")>>)

\* The bodies a response may carry; NotJson is a body res.json() cannot decode.
Bodies == {PlayersArray, PlayersObject, JArr(<<P2, P1>>), JArr(<<P1, JStr("x")>>),
           ErrorBody, NotJson}

Responses == [status : Statuses, body : Bodies]

\* aiohttp: ClientResponse.ok is 400 > status, and raise_for_status raises
\* ClientResponseError exactly when the response is not ok.
res_ok(res) == 400 > res.status

raise_for_status(res) ==
    IF res_ok(res) THEN Return(None)
    ELSE Raise([cls |-> "ClientResponseError", status |-> res.status])

res_json(res) ==
    IF res.body = NotJson THEN Raise([cls |-> "ContentTypeError"]) ELSE Return(res.body)

LavalinkError_from_payload(data) == Return([cls |-> "LavalinkError", payload |-> data])

Player_from_payload(p) ==
    IF p.j = "object" THEN Return([cls |-> "Player", payload |-> p])
    ELSE Raise([cls |-> "TypeError"])

\* "raise exc from cause": Python evaluates exc, then cause, then raises exc.
\* An expression that raises while being evaluated raises its own error.
raise_from(exc, cause) ==
    IF exc.kind = "raise" THEN exc
    ELSE IF cause.kind = "raise" THEN cause
    ELSE Raise(exc.val)

\* The f-string get formats.
rest_url(ssl, h, p, path) ==
    (IF ssl THEN "http" ELSE "https") \o "://" \o h \o ":" \o Format(p) \o "/v3/" \o path
    \o "&trace=true"

get_unchecked(path, res) ==
    [out |-> Return(res.body), req |-> Some([session |-> 0, url |-> "/v3/" \o path])]

\* get(path), given the response res the node answers with: the outcome of the
\* call and the request issued (None when an accessor raised first).
get(path, res) ==
    IF session.kind = "raise" THEN [out |-> session, req |-> None]
    ELSE IF is_ssl.kind = "raise" THEN [out |-> is_ssl, req |-> None]
    ELSE IF host.kind = "raise" THEN [out |-> host, req |-> None]
    ELSE IF port.kind = "raise" THEN [out |-> port, req |-> None]
    ELSE IF sessions[session.val].closed THEN [out |-> Raise(SessionClosed), req |-> None]
    ELSE LET req == Some([session |-> session.val,
                          url |-> rest_url(is_ssl.val, host.val, port.val, path)])
             data == res_json(res)
         IN IF data.kind = "raise" THEN [out |-> data, req |-> req]
            ELSE IF ~res_ok(res)
            THEN [out |-> raise_from(LavalinkError_from_payload(data.val),
                                     raise_for_status(res)),
                  req |-> req]
            ELSE [out |-> Return(data.val), req |-> req]

\* "for p in data": a list yields its items, a dict its keys (the bodies of
\* the model are lists and dicts).
iterate(data) ==
    IF data.j = "array" THEN Return(data.items)
    ELSE IF data.j = "object" THEN Return([i \in 1..Len(data.keys) |-> JStr(data.keys[i])])
    ELSE Raise([cls |-> "TypeError"])

comprehension_skipping(items) ==
    LET made == [i \in 1..Len(items) |-> Player_from_payload(items[i])]
        Ith[i \in 0..Len(items)] ==
            IF i = 0 THEN <<>>
            ELSE IF made[i].kind = "return" THEN Append(Ith[i - 1], made[i].val)
                 ELSE Ith[i - 1]
    IN Return(Ith[Len(items)])

\* The list comprehension: the first element that fails to decode raises.
comprehension(items) ==
    LET made == [i \in 1..Len(items) |-> Player_from_payload(items[i])]
        bad == {i \in 1..Len(items) : made[i].kind = "raise"}
    IN IF bad # {} THEN made[CHOOSE i \in bad : \A b \in bad : i <= b]
       ELSE Return([i \in 1..Len(items) |-> made[i].val])

players_path(session_id) == "sessions/" \o session_id \o "/players"

get_players_reversed(session_id, res) ==
    LET g == get(players_path(session_id), res)
        it == iterate(g.out.val)
    IN IF g.out.kind = "raise" THEN g
       ELSE IF it.kind = "raise" THEN [out |-> it, req |-> g.req]
       ELSE [out |-> comprehension([i \in 1..Len(it.val) |-> it.val[Len(it.val) + 1 - i]]),
             req |-> g.req]

get_players(session_id, res) ==
    LET g == get(players_path(session_id), res)
        it == iterate(g.out.val)
    IN IF g.out.kind = "raise" THEN g
       ELSE IF it.kind = "raise" THEN [out |-> it, req |-> g.req]
       ELSE [out |-> comprehension(it.val), req |-> g.req]

Issue(req) == IF req = None THEN requests ELSE Append(requests, req[1])

Get(path, res) ==
    /\ Len(requests) < MaxGets
    /\ LET g == get(path, res)
       IN /\ requests' = Issue(g.req)
          /\ last' = [call |-> "get", args |-> [path |-> path], res |-> res, out |-> g.out]
    /\ UNCHANGED <<closing, sessionFields, event_listeners, sessions, sockets, loops, tasks, handled,
                   sent, dispatches>>

GetPlayers(session_id, res) ==
    /\ Len(requests) < MaxGets
    /\ LET g == get_players(session_id, res)
       IN /\ requests' = Issue(g.req)
          /\ last' = [call |-> "get_players", args |-> [session_id |-> session_id],
                      res |-> res, out |-> g.out]
    /\ UNCHANGED <<closing, sessionFields, event_listeners, sessions, sockets, loops, tasks, handled,
                   sent, dispatches>>

----------------------------------------------------------------------------
(* The caller's REST calls, before and after connect with any arguments. *)

NextRest ==
    \/ \E h \in Hosts, p \in Ports, pw \in Passwords, bot \in BotIds,
          rk \in ResumeKeys, ssl \in BOOLEAN :
             Len(sessions) < MaxConnects /\ Connect(h, p, pw, bot, rk, ssl)
    \/ \E k \in DOMAIN loops, ok \in BOOLEAN : LoopEnter(k, ok)
    \/ \E path \in Paths, res \in Responses : Get(path, res)
    \/ \E sid \in SessionIds, res \in Responses : GetPlayers(sid, res)

SpecRest == Init /\ [][NextRest]_vars

----------------------------------------------------------------------------
(* The caller's registry calls, before and after connect. *)

NextAPI ==
    \/ \E t \in EventTypes, cb \in Callbacks : Listen(t, cb)
    \/ \E t \in EventTypes : Dispatch(t)
    \/ ConnectOnce
    \/ \E k \in DOMAIN loops, ok \in BOOLEAN : LoopEnter(k, ok)
    \/ \E i \in DOMAIN tasks : TaskStart(i)
    \/ \E i \in DOMAIN tasks, ok \in BOOLEAN : TaskFinish(i, ok)

SpecAPI == Init /\ [][NextAPI]_vars

----------------------------------------------------------------------------
(* close, and the ways a connection ends. *)

MaxCloses == 1
MaxLifeConnects == 2

session_close_leaving_open(s) ==
    [sessions |-> [sessions EXCEPT ![s].closed = TRUE], sockets |-> sockets]

\* aiohttp's ClientSession.close(): the session becomes closed and its
\* connector closes the transport of every connection it handed out, so each
\* open socket of the session is shut; frames already received stay readable.
session_close(s) ==
    [sessions |-> [sessions EXCEPT ![s].closed = TRUE],
     sockets  |-> [w \in DOMAIN sockets |->
                     IF sockets[w].session = s /\ sockets[w].st = "open"
                     THEN [sockets[w] EXCEPT !.st = "shut"]
                     ELSE sockets[w]]]

\* close() on the ws_connect context manager closes its coroutine: one that
\* never started, or is suspended in its handshake, can no longer be awaited or
\* resumed; one that ran to its end is left as it is.
websocket_close(w) ==
    [sockets EXCEPT ![w].st = IF @ \in {"new", "connecting"} THEN "dead" ELSE @]

fields_after_close_reset == <<_is_ssl, _host, _port, None, None>>

\* close() assigns none of the five connection fields.
fields_after_close == sessionFields

\* close() up to the end of "await self.session.close()": the accessor raises
\* before connect, otherwise the session is closed and the call is suspended.
CloseBegin ==
    /\ closing.pc = "idle"
    /\ closing.calls < MaxCloses
    /\ IF session.kind = "raise"
       THEN /\ last' = [call |-> "close", out |-> session]
            /\ closing' = [closing EXCEPT !.calls = @ + 1]
            /\ UNCHANGED <<sessions, sockets>>
       ELSE LET c == session_close(session.val)
            IN /\ sessions' = c.sessions
               /\ sockets' = c.sockets
               /\ closing' = [closing EXCEPT !.calls = @ + 1, !.pc = "websocket"]
               /\ UNCHANGED last
    /\ UNCHANGED <<sessionFields, event_listeners, loops, tasks, handled, sent, requests,
                   dispatches>>

\* The rest of close(): "self.websocket.close()", then the call returns.
CloseEnd ==
    /\ closing.pc = "websocket"
    /\ IF websocket.kind = "raise"
       THEN /\ last' = [call |-> "close", out |-> websocket]
            /\ UNCHANGED sockets
       ELSE /\ sockets' = websocket_close(websocket.val)
            /\ last' = [call |-> "close", out |-> Return(None)]
    /\ closing' = [closing EXCEPT !.pc = "idle", !.sentAt = Some(sent)]
    /\ LET f == fields_after_close
       IN /\ _is_ssl' = f[1]
          /\ _host' = f[2]
          /\ _port' = f[3]
          /\ _session' = f[4]
          /\ _websocket' = f[5]
    /\ UNCHANGED <<event_listeners, sessions, loops, tasks, handled, sent, requests,
                   dispatches>>

\* The first run of the loop task, with the handshake of ws_connect as the
\* suspension it is: the task starts the handshake and is suspended in it.
LoopHandshakeBegin(k) ==
    /\ k \in DOMAIN loops
    /\ loops[k].pc = "spawned"
    /\ IF websocket.kind = "raise"
       THEN /\ loops' = [loops EXCEPT ![k].pc = "failed"]
            /\ UNCHANGED sockets
       ELSE LET w == websocket.val
            IN IF sockets[w].st = "new" /\ ~sessions[sockets[w].session].closed
               THEN /\ sockets' = [sockets EXCEPT ![w].st = "connecting"]
                    /\ loops' = [loops EXCEPT ![k] = [pc |-> "connecting", ws |-> Some(w)]]
               ELSE /\ sockets' = [sockets EXCEPT ![w].st =
                                      IF @ = "new" THEN "failed" ELSE @]
                    /\ loops' = [loops EXCEPT ![k].pc = "failed"]
    /\ UNCHANGED <<closing, sessionFields, event_listeners, sessions, tasks, handled, sent,
                   requests, dispatches, last>>

\* The handshake completes: the socket is open and the loop enters the async
\* for, unless the node refused, the session was closed under the handshake or
\* the coroutine was closed, in which case the task ends with the error.
LoopHandshakeEnd(k, ok) ==
    /\ k \in DOMAIN loops
    /\ loops[k].pc = "connecting"
    /\ LET w == loops[k].ws[1]
       IN IF sockets[w].st = "connecting" /\ ~sessions[sockets[w].session].closed /\ ok
          THEN /\ sockets' = [sockets EXCEPT ![w].st = "open"]
               /\ loops' = [loops EXCEPT ![k].pc = "running"]
          ELSE /\ sockets' = [sockets EXCEPT ![w].st =
                                 IF @ = "connecting" THEN "failed" ELSE @]
               /\ loops' = [loops EXCEPT ![k].pc = "failed"]
    /\ UNCHANGED <<closing, sessionFields, event_listeners, sessions, tasks, handled, sent,
                   requests, dispatches, last>>

\* The node goes on sending to a socket the client has shut: the frame is lost.
NodeSendLost(w) ==
    /\ w \in DOMAIN sockets
    /\ sockets[w].st = "shut"
    /\ sent < MaxFrames
    /\ sent' = sent + 1
    /\ UNCHANGED <<closing, sessionFields, event_listeners, sessions, sockets, loops, tasks,
                   handled, requests, dispatches, last>>

\* The connection breaks.
NodeFail(w) ==
    /\ w \in DOMAIN sockets
    /\ sockets[w].st = "open"
    /\ sockets' = [sockets EXCEPT ![w].st = "error"]
    /\ UNCHANGED <<closing, sessionFields, event_listeners, sessions, loops, tasks, handled,
                   sent, requests, dispatches, last>>

\* The loop meets the broken connection once the received frames are read:
\* aiohttp's receive() yields a CLOSED message, which ends the iteration, or an
\* ERROR message, whose data json.loads rejects.
LoopSocketError(k, how) ==
    /\ k \in DOMAIN loops
    /\ loops[k].pc = "running"
    /\ sockets[loops[k].ws[1]].inbox = <<>>
    /\ sockets[loops[k].ws[1]].st = "error"
    /\ loops' = [loops EXCEPT ![k].pc = how]
    /\ UNCHANGED <<closing, sessionFields, event_listeners, sessions, sockets, tasks, handled,
                   sent, requests, dispatches, last>>

----------------------------------------------------------------------------
(* The whole life of a client: listeners, connects, traffic, requests, close. *)

LifeArgs == {<<"h", PInt(80), "p", 1, None, FALSE>>,
             <<"h", PStr("2333"), "p", 1, Some("k"), TRUE>>}
LifeTypes == {"ReadyEvent", "StatsEvent"}
LifeFrames == {Frame(Some("ready"), None), Frame(Some("bogus"), None), Malformed}
LifeResponses == {[status |-> 200, body |-> PlayersArray]}

NextLife ==
    \/ \E t \in LifeTypes, cb \in Callbacks : Listen(t, cb)
    \/ \E t \in LifeTypes : Dispatch(t)
    \/ \E a \in LifeArgs :
          Len(sessions) < MaxLifeConnects /\ Connect(a[1], a[2], a[3], a[4], a[5], a[6])
    \/ CloseBegin
    \/ CloseEnd
    \/ \E path \in Paths, res \in LifeResponses : Get(path, res)
    \/ \E sid \in SessionIds, res \in LifeResponses : GetPlayers(sid, res)
    \/ \E k \in DOMAIN loops, ok \in BOOLEAN : LoopEnter(k, ok)

SpecLife == Init /\ [][NextLife]_vars

----------------------------------------------------------------------------
(* The ways a dispatch loop ends, over up to two connections of one client. *)

NextEnd ==
    \/ Listen("ReadyEvent", "cb1")
    \/ \E a \in LifeArgs :
          Len(sessions) < MaxLifeConnects /\ Connect(a[1], a[2], a[3], a[4], a[5], a[6])
    \/ CloseBegin
    \/ CloseEnd
    \/ \E k \in DOMAIN loops, ok \in BOOLEAN : LoopEnter(k, ok)
    \/ \E w \in DOMAIN sockets, f \in LifeFrames : NodeSend(w, f)
    \/ \E w \in DOMAIN sockets : NodeClose(w)
    \/ \E w \in DOMAIN sockets : NodeFail(w)
    \/ \E k \in DOMAIN loops : LoopStep(k)
    \/ \E k \in DOMAIN loops : LoopExit(k)
    \/ \E k \in DOMAIN loops, how \in {"ended", "failed"} : LoopSocketError(k, how)

SpecEnd == Init /\ [][NextEnd]_vars

----------------------------------------------------------------------------
(* One connection and its close, with the event loop running every task that  *)
(* can run.                                                                    *)

NextClose ==
    \/ \E t \in LifeTypes, cb \in Callbacks : Listen(t, cb)
    \/ ConnectOnce
    \/ CloseBegin
    \/ CloseEnd
    \/ \E k \in DOMAIN loops : LoopHandshakeBegin(k)
    \/ \E k \in DOMAIN loops, ok \in BOOLEAN : LoopHandshakeEnd(k, ok)
    \/ \E w \in DOMAIN sockets, f \in LifeFrames : NodeSend(w, f)
    \/ \E w \in DOMAIN sockets : NodeSendLost(w)
    \/ \E k \in DOMAIN loops : LoopStep(k)
    \/ \E k \in DOMAIN loops : LoopExit(k)
    \/ \E i \in DOMAIN tasks : TaskStart(i)
    \/ \E i \in DOMAIN tasks, ok \in BOOLEAN : TaskFinish(i, ok)

LoopRuns ==
    \/ \E k \in DOMAIN loops : LoopHandshakeBegin(k)
    \/ \E k \in DOMAIN loops, ok \in BOOLEAN : LoopHandshakeEnd(k, ok)
    \/ \E k \in DOMAIN loops : LoopStep(k)
    \/ \E k \in DOMAIN loops : LoopExit(k)

\* The event loop runs every task that is ready: the loop task takes its next
\* step whenever it has one.
SpecClose == Init /\ [][NextClose]_vars /\ WF_vars(LoopRuns)

----------------------------------------------------------------------------
(* Properties. *)

Connected == _session # None

\* C1: as long as connect() was never invoked, whatever listen and dispatch
\* calls were made, each of the five accessors raises the not-connected
\* RuntimeError and none returns a value.
C1_AccessorsRaiseBeforeConnect ==
    sessions = <<>> =>
        /\ is_ssl = Raise(NotConnected)
        /\ host = Raise(NotConnected)
        /\ port = Raise(NotConnected)
        /\ session = Raise(NotConnected)
        /\ websocket = Raise(NotConnected)

C1_Witness ==
    /\ sessions = <<>>
    /\ event_listeners # EmptyDict
    /\ last.call = "dispatch"
    /\ tasks # <<>>

\* C2 (as claimed): a get on a connected client answered with a non-success
\* status and a decodable body raises the LavalinkError built from that body.
C2_DomainErrorReachesCaller ==
    (/\ last.call = "get"
     /\ Connected
     /\ last.res.status >= 400
     /\ last.res.body # NotJson)
    => last.out = Raise([cls |-> "LavalinkError", payload |-> last.res.body])

\* The class of the event the claim expects for a frame, "none" for a frame
\* the claim does not call recognized.
ExpectedClass(f) ==
    IF ~f.ok \/ f.op = None THEN "none"
    ELSE CASE f.op[1] = "ready" -> "ReadyEvent"
           [] f.op[1] = "playerUpdate" -> "PlayerUpdateEvent"
           [] f.op[1] = "stats" -> "StatsEvent"
           [] f.op[1] = "event" /\ f.type # None /\ f.type[1] \in SubEventNames -> f.type[1]
           [] OTHER -> "none"

Unrecognized(f) ==
    /\ f.ok
    /\ f.op # None
    /\ \/ f.op[1] \notin {"ready", "playerUpdate", "stats", "event"}
       \/ f.op[1] = "event" /\ f.type # None /\ f.type[1] \notin SubEventNames

RegisteredFor(cls) == IF cls \in DOMAIN event_listeners THEN event_listeners[cls] ELSE <<>>

\* C3: when the loop reads a recognized frame, the tasks it creates are exactly
\* one per registration of the matching event type, each for the event of that
\* type decoded from that frame, and no task for any other type.
C3_ExactlyMatchingListeners ==
    [][Len(handled') = Len(handled) + 1 =>
        LET e == handled'[Len(handled')]
            cls == ExpectedClass(e.f)
            L == RegisteredFor(cls)
        IN cls # "none" =>
            /\ Len(tasks') = Len(tasks) + Len(L)
            /\ SubSeq(tasks', 1, Len(tasks)) = tasks
            /\ \A i \in 1..Len(L) :
                  tasks'[Len(tasks) + i] = [ev |-> [cls |-> cls, n |-> e.n], cb |-> L[i],
                                            st |-> "pending"]]_vars

C3_Witness ==
    /\ Len(tasks) = 1
    /\ Cardinality(DOMAIN event_listeners) = 2
    /\ \E i \in DOMAIN handled :
          /\ handled[i].scheduled = 1
          /\ ExpectedClass(handled[i].f) = "StatsEvent"

\* C4: a frame with an unrecognized op, or with op "event" and an unrecognized
\* type, schedules nothing and raises nothing; the loop does not fail on it and
\* a recognized frame read after it is dispatched.
C4_UnknownFramesDropped ==
    /\ \A i \in DOMAIN handled :
          Unrecognized(handled[i].f) =>
             /\ handled[i].r = "dropped"
             /\ handled[i].scheduled = 0
             /\ \A t \in DOMAIN tasks : tasks[t].ev.n # handled[i].n
             /\ (i < Len(handled) /\ ExpectedClass(handled[i + 1].f) # "none")
                   => handled[i + 1].r = "dispatched"
    /\ \A k \in DOMAIN loops :
          (handled # <<>> /\ Unrecognized(handled[Len(handled)].f)) =>
             /\ loops[k].pc # "failed"
             /\ (sockets[loops[k].ws[1]].inbox # <<>> => loops[k].pc = "running")

C4_Witness ==
    /\ Len(handled) = 2
    /\ Unrecognized(handled[1].f)
    /\ handled[1].f.op = Some("event")
    /\ handled[2].r = "dispatched"
    /\ handled[2].scheduled = 2

\* C5 (as claimed): a get on a connected client requests exactly
\* {scheme}://{host}:{port}/v3/{path}, scheme http when is_ssl and https
\* otherwise, with nothing after the path.
C5_RequestUrl ==
    (last.call = "get" /\ Connected) =>
        requests[Len(requests)].url =
            (IF _is_ssl[1] THEN "http" ELSE "https") \o "://" \o _host[1] \o ":"
            \o Format(_port[1]) \o "/v3/" \o last.args.path

PlayerOf(p) == [cls |-> "Player", payload |-> p]

\* C6 (as claimed): on a successful response {"players": [p1, p2]} get_players
\* returns the two Players decoded from p1 and p2, in that order.
C6_PlayersFromObject ==
    (/\ last.call = "get_players"
     /\ Connected
     /\ last.res.status = 200
     /\ last.res.body = PlayersObject)
    => last.out = Return(<<PlayerOf(P1), PlayerOf(P2)>>)

\* C6 (amended): on a successful response whose body is a JSON array of player
\* objects get_players returns one Player per element, in the array's order.
C6_PlayersFromArray ==
    (/\ last.call = "get_players"
     /\ Connected
     /\ last.res.status = 200
     /\ last.res.body.j = "array"
     /\ \A i \in DOMAIN last.res.body.items : last.res.body.items[i].j = "object")
    => last.out = Return([i \in DOMAIN last.res.body.items |->
                             PlayerOf(last.res.body.items[i])])

C6_Witness ==
    /\ last.call = "get_players"
    /\ Connected
    /\ last.res = [status |-> 200, body |-> PlayersArray]
    /\ last.out = Return(<<PlayerOf(P1), PlayerOf(P2)>>)

ExpectedWsUrl(a) ==
    (IF a.is_ssl THEN "wss" ELSE "ws") \o "://" \o a.host \o ":" \o Format(a.port)
    \o "/v3/websocket"

FixedHeaders(a, hd) ==
    /\ {"Authorization", "User-Id", "Client-Name"} \subseteq DOMAIN hd
    /\ DOMAIN hd \subseteq {"Authorization", "User-Id", "Client-Name", "Resume-Key"}
    /\ hd["Authorization"] = a.password
    /\ hd["User-Id"] = ToString(a.bot_id)
    /\ "Resume-Key" \in DOMAIN hd => Some(hd["Resume-Key"]) = a.resume_key

\* C7 (as claimed): after connect the WebSocket URL and the headers are as
\* stated, with Resume-Key present exactly when a resume key was passed.
C7_ResumeKeyIffSupplied ==
    last.call = "connect" =>
        LET hd == sessions[_session[1]].headers
        IN /\ sockets[_websocket[1]].url = ExpectedWsUrl(last.args)
           /\ FixedHeaders(last.args, hd)
           /\ "Resume-Key" \in DOMAIN hd <=> last.args.resume_key # None

\* C7 (amended): after connect the WebSocket URL is {scheme}://{host}:{port}/v3/websocket
\* with scheme wss iff is_ssl, and the headers are Authorization, User-Id (the
\* decimal text of bot_id), Client-Name, and Resume-Key exactly when the resume
\* key passed is a non-empty string.
C7_ResumeKeyIffNonEmpty ==
    last.call = "connect" =>
        LET hd == sessions[_session[1]].headers
        IN /\ sockets[_websocket[1]].url = ExpectedWsUrl(last.args)
           /\ FixedHeaders(last.args, hd)
           /\ "Resume-Key" \in DOMAIN hd <=>
                 (last.args.resume_key # None /\ last.args.resume_key # Some(""))

C7_Witness ==
    /\ last.call = "connect"
    /\ last.args.resume_key = Some("")
    /\ last.args.is_ssl
    /\ sockets[_websocket[1]].url = "wss://h:2333/v3/websocket"
    /\ "Resume-Key" \notin DOMAIN sessions[_session[1]].headers

IsPrefix(s, t) == Len(s) <= Len(t) /\ \A i \in 1..Len(s) : s[i] = t[i]

TasksOf(n) ==
    LET idx == {i \in DOMAIN tasks : tasks[i].ev.n = n}
        Ith[i \in 0..Len(tasks)] ==
            IF i = 0 THEN <<>>
            ELSE IF i \in idx THEN Append(Ith[i - 1], tasks[i]) ELSE Ith[i - 1]
    IN Ith[Len(tasks)]

\* C8: frames are read in arrival order, every task for an earlier frame is
\* created before any task for a later frame, the tasks of one event are
\* created (and started) in registration order, and nothing orders completion.
C8_SchedulingOrder ==
    /\ \A i \in DOMAIN handled : handled[i].n = i
    /\ \A i, j \in DOMAIN tasks : i < j => tasks[i].ev.n <= tasks[j].ev.n
    /\ \A i \in DOMAIN handled :
          LET ts == TasksOf(handled[i].n)
          IN /\ Len(ts) = handled[i].scheduled
             /\ ts # <<>> =>
                   IsPrefix([t \in DOMAIN ts |-> ts[t].cb], RegisteredFor(ts[1].ev.cls))
    /\ \A i, j \in DOMAIN tasks :
          (i < j /\ tasks[j].st # "pending") => tasks[i].st # "pending"

C8_Witness ==
    /\ Len(tasks) = 4
    /\ tasks[1].cb # tasks[2].cb
    /\ tasks[1].st = "running"
    /\ tasks[2].st = "done"
    /\ tasks[3].st = "pending"

\* C9: a dispatch of an event whose type has no key in the registry returns
\* None without raising, creates no task, and changes neither the registry nor
\* the session fields.
C9_DispatchWithoutListeners ==
    [][(dispatches' = dispatches + 1 /\ last'.args.event.cls \notin DOMAIN event_listeners) =>
        /\ last'.out = Return(None)
        /\ tasks' = tasks
        /\ event_listeners' = event_listeners
        /\ sessionFields' = sessionFields]_vars

C9_Witness ==
    /\ last.call = "dispatch"
    /\ last.args.event.cls \notin DOMAIN event_listeners
    /\ event_listeners # EmptyDict
    /\ Connected
    /\ last.out = Return(None)

\* C10: the loop never waits for a listener: whenever it is running and a frame
\* is unread, its next iteration can run, whatever state the listener tasks of
\* earlier events are in.
C10_LoopNeverWaits ==
    \A k \in DOMAIN loops :
        (loops[k].pc = "running" /\ sockets[loops[k].ws[1]].inbox # <<>>)
            => ENABLED LoopStep(k)

C10_Witness ==
    /\ Len(handled) = 2
    /\ handled[2].r = "dispatched"
    /\ handled[2].scheduled > 0
    /\ \E i \in DOMAIN tasks : tasks[i].ev.n = 1 /\ tasks[i].st = "pending"
    /\ \E i \in DOMAIN tasks : tasks[i].ev.n = 1 /\ tasks[i].st = "running"

\* C11: a listener that raises fails alone: the step in which it fails changes
\* no other task, no loop and no socket, and afterwards its siblings can still
\* start and finish and the loop can still read the next frame; no recognized
\* frame is ever recorded as raised, so dispatch itself did not raise.
C11_ListenerFailureIsolated ==
    /\ [](\A i \in DOMAIN tasks : tasks[i].st = "failed" =>
            /\ \A j \in DOMAIN tasks :
                  /\ tasks[j].st = "running" => ENABLED TaskFinish(j, TRUE)
                  /\ (tasks[j].st = "pending"
                        /\ \A h \in 1..(j - 1) : tasks[h].st # "pending")
                     => ENABLED TaskStart(j)
            /\ \A k \in DOMAIN loops :
                  (loops[k].pc = "running" /\ sockets[loops[k].ws[1]].inbox # <<>>)
                     => ENABLED LoopStep(k)
            /\ \A h \in DOMAIN handled :
                  ExpectedClass(handled[h].f) # "none" => handled[h].r = "dispatched")
    /\ [][\A i \in DOMAIN tasks :
            (i \in DOMAIN tasks' /\ tasks[i].st = "running" /\ tasks'[i].st = "failed") =>
               /\ Len(tasks') = Len(tasks)
               /\ \A j \in DOMAIN tasks : j # i => tasks'[j] = tasks[j]
               /\ loops' = loops
               /\ sockets' = sockets
               /\ handled' = handled]_vars

C11_Witness ==
    /\ Len(tasks) = 4
    /\ tasks[1].st = "failed"
    /\ tasks[2].st = "done"
    /\ tasks[1].ev = tasks[2].ev
    /\ tasks[3].ev.n = 2
    /\ tasks[3].st = "running"
    /\ \A k \in DOMAIN loops : loops[k].pc = "running"

\* C12: get_players returns a list only when the get succeeded and every
\* element decoded, and then the list has one Player per element; in every
\* other case the call raises and returns nothing.
C12_AllOrNothing ==
    last.call = "get_players" =>
        IF /\ Connected
           /\ last.res.status < 400
           /\ last.res.body.j = "array"
           /\ \A i \in DOMAIN last.res.body.items : last.res.body.items[i].j = "object"
        THEN /\ last.out.kind = "return"
             /\ Len(last.out.val) = Len(last.res.body.items)
        ELSE last.out.kind = "raise"

C12_Witness ==
    /\ last.call = "get_players"
    /\ Connected
    /\ last.res = [status |-> 200, body |-> JArr(<<P1, JStr("x")>>)]
    /\ last.out.kind = "raise"

\* C18: a step that registers a callback creates no task, and a step that
\* creates tasks leaves the registry as it is and creates exactly one task per
\* callback in the registry list of the event's type at that moment, in list
\* order: none skipped, none twice, none registered later.
C18_DispatchAtomic ==
    [][/\ event_listeners' # event_listeners => (tasks' = tasks /\ handled' = handled)
       /\ Len(tasks') > Len(tasks) =>
             LET new == SubSeq(tasks', Len(tasks) + 1, Len(tasks'))
                 L == RegisteredFor(new[1].ev.cls)
             IN /\ event_listeners' = event_listeners
                /\ [t \in DOMAIN new |-> new[t].cb] = L
                /\ \A t \in DOMAIN new : new[t].ev = new[1].ev]_vars

C18_Witness ==
    /\ Len(handled) = 2
    /\ handled[1].scheduled = 1
    /\ handled[2].scheduled = 2
    /\ handled[1].f = handled[2].f
    /\ tasks[1].st = "running"
    /\ tasks[2].cb = tasks[1].cb
    /\ tasks[3].cb # tasks[1].cb

MissingKey(f) ==
    /\ f.ok
    /\ \/ f.op = None
       \/ f.op = Some("event") /\ f.type = None

\* C19: a well-formed frame without "op", or with op "event" and without
\* "type", dispatches nothing and ends the loop with an error: it is the last
\* frame the loop handles.
C19_MissingKeyEndsLoop ==
    \A i \in DOMAIN handled :
        MissingKey(handled[i].f) =>
            /\ handled[i].r = "raised"
            /\ handled[i].scheduled = 0
            /\ \A t \in DOMAIN tasks : tasks[t].ev.n # handled[i].n
            /\ i = Len(handled)
            /\ \A k \in DOMAIN loops : loops[k].pc = "failed"

C19_Witness ==
    /\ Len(handled) = 1
    /\ handled[1].f = Frame(Some("event"), None)
    /\ \E k \in DOMAIN loops :
          /\ loops[k].pc = "failed"
          /\ Len(sockets[loops[k].ws[1]].inbox) = 1
          /\ ExpectedClass(sockets[loops[k].ws[1]].inbox[1].f) = "ReadyEvent"
    /\ "ReadyEvent" \in DOMAIN event_listeners

\* C13: the listener registry only grows by appending.  Registering callback for
\* event_type puts it at the end of the list of event_type, creating the list
\* with that single callback when the key is absent, and changes no other key;
\* and every step of the client that changes the registry at all is such an
\* append: dispatch, connect, close, get, get_players and the loop never
\* remove, reorder or replace an entry.
C13_RegistryOnlyAppends ==
    /\ [](\A t \in LifeTypes, cb \in Callbacks :
            LET d == decorator(t, cb)
            IN /\ DOMAIN d = DOMAIN event_listeners \cup {t}
               /\ d[t] = Append(RegisteredFor(t), cb)
               /\ \A u \in DOMAIN event_listeners \ {t} : d[u] = event_listeners[u])
    /\ [][event_listeners' # event_listeners =>
            \E t \in LifeTypes, cb \in Callbacks :
               /\ DOMAIN event_listeners' = DOMAIN event_listeners \cup {t}
               /\ event_listeners'[t] = Append(RegisteredFor(t), cb)
               /\ \A u \in DOMAIN event_listeners \ {t} :
                     event_listeners'[u] = event_listeners[u]]_vars

\* A second, different callback was appended behind the first one of its key,
\* on a client that has connected, dispatched and closed.
C13_Witness ==
    /\ \E t \in LifeTypes : /\ Len(RegisteredFor(t)) = 2
                            /\ RegisteredFor(t)[1] # RegisteredFor(t)[2]
    /\ Connected
    /\ dispatches > 0
    /\ closing.sentAt # None

Over(k) == loops[k].pc \in {"ended", "failed"}

\* C14: a dispatch loop that has ended (graceful close, socket error, or a frame
\* that made the body raise) stays ended.  No step changes it again, a frame is
\* handled and listeners are scheduled only by a loop that is still running and
\* only for its own socket, a socket that was opened and is no longer open is
\* never open again, and a new loop appears only in a step that is a connect().
C14_EndedLoopStaysEnded ==
    [][/\ \A k \in DOMAIN loops : Over(k) => /\ k \in DOMAIN loops'
                                             /\ loops'[k] = loops[k]
       /\ handled' # handled =>
             \E k \in DOMAIN loops :
                /\ loops[k].pc = "running"
                /\ Len(handled') = Len(handled) + 1
                /\ SubSeq(handled', 1, Len(handled)) = handled
                /\ handled'[Len(handled')].ws = loops[k].ws[1]
       /\ tasks' # tasks => handled' # handled
       /\ \A w \in DOMAIN sockets :
             sockets[w].st \notin {"new", "open"} => /\ w \in DOMAIN sockets'
                                                     /\ sockets'[w].st = sockets[w].st
       /\ Len(loops') # Len(loops) => /\ Len(loops') = Len(loops) + 1
                                      /\ Len(sessions') = Len(sessions) + 1
                                      /\ last'.call = "connect"]_vars

\* A loop ended on a malformed frame while a ready frame, for which a listener
\* is registered, waits unread behind it.
C14_Witness ==
    \E k \in DOMAIN loops :
       /\ loops[k].pc = "failed"
       /\ loops[k].ws # None
       /\ \E i \in DOMAIN handled : /\ handled[i].ws = loops[k].ws[1]
                                    /\ handled[i].f = Malformed
       /\ sockets[loops[k].ws[1]].inbox # <<>>
       /\ sockets[loops[k].ws[1]].inbox[1].f = Frame(Some("ready"), None)
       /\ RegisteredFor("ReadyEvent") # <<>>

\* C15: every connect(), a second one included, sets the five fields from its
\* own arguments and adds a new session and a new socket bound to that session,
\* and leaves the sessions and sockets of earlier calls exactly as they were:
\* not closed and not reused.  From then on nothing closes a session that is
\* not the current one, so the earlier session is leaked.
C15_SecondConnectLeaksFirst ==
    [][/\ Len(loops') > Len(loops) =>
             LET a == last'.args
                 s == Len(sessions) + 1
                 w == Len(sockets) + 1
             IN /\ last'.call = "connect"
                /\ sessionFields' = <<Some(a.is_ssl), Some(a.host), Some(a.port), Some(s), Some(w)>>
                /\ Len(sessions') = s
                /\ Len(sockets') = w
                /\ SubSeq(sessions', 1, Len(sessions)) = sessions
                /\ SubSeq(sockets', 1, Len(sockets)) = sockets
                /\ ~sessions'[s].closed
                /\ sockets'[w].session = s
                /\ sockets'[w].st = "new"
                /\ sockets'[w].url = ExpectedWsUrl(a)
       /\ \A s \in DOMAIN sessions : _session' # Some(s) => sessions'[s] = sessions[s]]_vars

\* A second connect with other arguments has run while the first session is
\* not closed and the first socket is open; the fields are those of the second.
C15_Witness ==
    /\ Len(sessions) = 2
    /\ last.call = "connect"
    /\ _session = Some(2)
    /\ _websocket = Some(2)
    /\ _port = Some(PStr("2333"))
    /\ sockets[1].url = "ws://h:80/v3/websocket"
    /\ sockets[2].url = "wss://h:2333/v3/websocket"
    /\ ~sessions[1].closed
    /\ sockets[1].st = "open"
    /\ sockets[2].st = "new"

\* C16: the five session fields change only in a step that is a connect().
\* Once a connect has run, whatever follows (close, listen, dispatch, get,
\* get_players, the loop), every accessor returns a value and never raises the
\* not-connected error, and the values are those of the latest connect: they
\* name its session and its socket, whose URL was built from them.
C16_FieldsSetOnlyByConnect ==
    /\ [](Len(sessions) > 0 =>
            /\ is_ssl.kind = "return"
            /\ host.kind = "return"
            /\ port.kind = "return"
            /\ session = Return(Len(sessions))
            /\ websocket = Return(Len(sockets))
            /\ sockets[websocket.val].session = session.val
            /\ sockets[websocket.val].url = ws_url(is_ssl.val, host.val, port.val))
    /\ [][sessionFields' # sessionFields =>
             /\ Len(loops') = Len(loops) + 1
             /\ last'.call = "connect"]_vars

\* close() has returned on a connected client: its session is closed and the
\* accessors still return what connect set.
C16_Witness ==
    /\ closing.sentAt # None
    /\ last = [call |-> "close", out |-> Return(None)]
    /\ sessions[Len(sessions)].closed
    /\ host = Return("h")
    /\ port = Return(PStr("2333"))
    /\ is_ssl = Return(TRUE)
    /\ session = Return(1)
    /\ websocket = Return(1)

\* C17: on a client on which connect() was never called, close(), get(path) and
\* get_players(session_id) each raise the not-connected error at once: no HTTP
\* request is issued, nothing is closed, no call stays suspended, and the
\* session fields and the listener registry are as they were.
C17_NotConnectedCallsFail ==
    /\ [](~Connected =>
            /\ session = Raise(NotConnected)
            /\ \A path \in Paths, res \in LifeResponses :
                  get(path, res) = [out |-> Raise(NotConnected), req |-> None]
            /\ \A sid \in SessionIds, res \in LifeResponses :
                  get_players(sid, res) = [out |-> Raise(NotConnected), req |-> None])
    /\ [][(~Connected /\ last' # last /\ last'.call \in {"close", "get", "get_players"}) =>
             /\ last'.out = Raise(NotConnected)
             /\ closing'.pc = "idle"
             /\ UNCHANGED <<sessionFields, event_listeners, sessions, sockets, loops, tasks,
                            handled, sent, requests, dispatches>>]_vars

\* close() and then get_players() were called before any connect, with
\* listeners registered: both raised and nothing else happened.
C17_Witness ==
    /\ ~Connected
    /\ closing = [pc |-> "idle", calls |-> 1, sentAt |-> None]
    /\ last.call = "get_players"
    /\ last.out = Raise(NotConnected)
    /\ requests = <<>>
    /\ sessions = <<>>
    /\ Registrations = 2

CloseCompleted == Connected /\ closing.sentAt # None

\* C20: after close() has returned on a connected client, the dispatch loop
\* that connect() spawned eventually terminates, whether close ran before the
\* loop task first ran, between its steps, or with frames still unread; and no
\* frame the node sent after close() returned is ever handled, so no listener
\* is scheduled for one.
C20_CloseEndsLoop ==
    /\ CloseCompleted ~> (\A k \in DOMAIN loops : Over(k))
    /\ [](CloseCompleted =>
            /\ \A i \in DOMAIN handled : handled[i].n <= closing.sentAt[1]
            /\ \A i \in DOMAIN tasks : tasks[i].ev.n <= closing.sentAt[1])

\* close() returned while the loop was running with a frame unread; the node
\* sent another frame afterwards; the loop has dispatched the earlier frame to
\* a listener and has ended.
C20_Witness ==
    /\ CloseCompleted
    /\ closing.sentAt = Some(1)
    /\ sent = 2
    /\ \A k \in DOMAIN loops : loops[k].pc = "ended"
    /\ Len(handled) = 1
    /\ handled[1].r = "dispatched"
    /\ handled[1].scheduled > 0

====
